---- MODULE Spec2Model ----
(***************************************************************************)
(* INAU build-and-install control plane.                                   *)
(*                                                                         *)
(* Two generations of the pipeline live in the repository and both are     *)
(* modelled:                                                               *)
(*   - the Celery pipeline: webhook.py (gateway), build.py (worker),       *)
(*     restapi.py (installer), models.py (catalog);                        *)
(*   - the dispatcher: inau-dispatcher.py (gateway, Builder processes,     *)
(*     reconciliation), lib/db.py (catalog).                               *)
(* Both write the same builds / artifacts tables and the same file store.  *)
(***************************************************************************)
EXTENDS Integers, Sequences, FiniteSets, TLC

\* ------------------------------------------------------------------ bounds
NumHandlers == 2
NumWorkers == 2
MaxDeliveries == 2
MaxInstalls == 1
NumInstallers == 2
MaxHooks == 3
MaxTasks == 2
MaxPosts == 2
MaxReconciles == 1

\* ------------------------------------------------------- program constants
SCHEDULED == 0
RUNNING == 1
SUCCESS == 2
FAILED == 3

CPLUSPLUS == 0
LIBRARY == 4

GLOBAL == 0
FACILITY == 1
HOST == 2

\* Stands for the 40-zero object id of a tag deletion.
ZeroSha == "0000"

RefsTags == "refs/tags/"

\* ---------------------------------------------------------------- catalog
\* Repository rows (admin-managed, static for the core): the same upstream
\* project P is bound to platform 1 (enabled), platform 2 (enabled) and
\* platform 3 (disabled); project Q is bound to platform 1 only.
Repositories ==
  << [id |-> 1, platform_id |-> 1, type |-> CPLUSPLUS, name |-> "P", enabled |-> TRUE,
      destination |-> "bin/"],
     [id |-> 2, platform_id |-> 2, type |-> LIBRARY, name |-> "P", enabled |-> TRUE,
      destination |-> "lib/"],
     [id |-> 3, platform_id |-> 3, type |-> CPLUSPLUS, name |-> "P", enabled |-> FALSE,
      destination |-> "bin/"],
     [id |-> 4, platform_id |-> 1, type |-> CPLUSPLUS, name |-> "Q", enabled |-> TRUE,
      destination |-> "bin/"] >>

\* Builder rows: platform 1 has two builders, platform 2 has one.
Builders ==
  << [id |-> 1, platform_id |-> 1], [id |-> 2, platform_id |-> 1],
     [id |-> 3, platform_id |-> 2] >>

\* Server and Host rows: server 1 serves hosts 1 and 3, server 2 host 2.
\* Hosts 1 and 2 are of facility "production", host 3 of "development".
Servers ==
  << [id |-> 1, platform_id |-> 1, prefix |-> "/runtime/"],
     [id |-> 2, platform_id |-> 2, prefix |-> "/runtime64/"] >>

Hosts ==
  << [id |-> 1, server_id |-> 1, name |-> "h1", facility |-> "production"],
     [id |-> 2, server_id |-> 2, name |-> "h2", facility |-> "production"],
     [id |-> 3, server_id |-> 1, name |-> "h3", facility |-> "development"] >>

\* ------------------------------------------------------------ sequences
\* Python's `a in b` for strings, on sequences of characters.
IsSubstring(a, b) ==
  \/ Len(a) = 0
  \/ \E i \in 1..(Len(b) - Len(a) + 1) : SubSeq(b, i, i + Len(a) - 1) = a


\* ------------------------------------------------------------------ state
VARIABLES
  builds,        \* builds table: row id = position
  artifacts,     \* artifacts table: set of committed rows
  store,         \* Object Store: file path -> content
  installations, \* installations table: sequence of committed rows
  taskq,         \* Celery queue 'build_queue'
  req,           \* webhook.py server processes, one request at a time each
  wk,            \* build.py Celery worker processes
  inst,          \* restapi.py server processes, one install request at a time each
  delivered,     \* number of webhook deliveries so far
  installs,      \* per restapi.py process: number of install requests so far
  hooks,         \* gitlab-hook-handler.py: number of requests so far
  hookStatus,    \* gitlab-hook-handler.py: status of the last response
  allbuilders,   \* inau-dispatcher.py: platform_id -> list of Builder objects
  bld,           \* Builder objects ever constructed: object id = position
  bqueue,        \* per Builder object: its Queue
  bproc,         \* per Builder object: its handler Process
  main,          \* main process of the dispatcher: stack of running frames
  posts,         \* number of webhook POSTs so far
  reconciles,    \* number of SIGHUPs so far
  remote,        \* files and symlinks installed on the servers
  issued,        \* per server: the sets of files install() has sent commands for
  chan           \* one SSH session of install(): its commands and the server's files

celeryVars == <<builds, artifacts, store, installations, taskq, req, wk, inst,
                delivered, installs>>

siteVars == <<remote, issued, chan>>
hookVars == <<hooks, hookStatus>>

dispVars == <<allbuilders, bld, bqueue, bproc, main, posts, reconciles>>

Handlers == 1..NumHandlers
Workers == 1..NumWorkers

\* --------------------------------------------------------- webhook payloads
Admitted ==
  [object_kind |-> "tag_push", after |-> "tagobj", commits |-> <<"c1">>,
   ref |-> <<RefsTags, "t1">>, path |-> "P", default_branch |-> <<"m">>]

Payloads ==
  { Admitted,
    [Admitted EXCEPT !.object_kind = "push"],
    [Admitted EXCEPT !.after = ZeroSha],
    [Admitted EXCEPT !.after = "c1"],
    [Admitted EXCEPT !.commits = <<>>],
    [Admitted EXCEPT !.ref = <<"refs/heads/", "m">>],
    [Admitted EXCEPT !.ref = <<RefsTags>>],
    [Admitted EXCEPT !.ref = <<RefsTags, "t2">>],
    [Admitted EXCEPT !.path = "R"] }

\* Tag pushes of project Q, which has one enabled repository.
AdmittedQ == [Admitted EXCEPT !.path = "Q"]

PayloadsQ ==
  { AdmittedQ,
    [AdmittedQ EXCEPT !.ref = <<RefsTags, "t2">>],
    [AdmittedQ EXCEPT !.after = ZeroSha] }

\* Deliveries to gitlab-hook-handler.py: tag pushes of P and Q and other refs.
PayloadsH ==
  { Admitted, AdmittedQ,
    [Admitted EXCEPT !.ref = <<RefsTags, "t2">>],
    [AdmittedQ EXCEPT !.ref = <<RefsTags, "t2">>],
    [Admitted EXCEPT !.ref = <<"refs/heads/", "m">>],
    [Admitted EXCEPT !.path = "R"] }

\* Deliveries to inau-dispatcher.py.
PayloadsD ==
  { Admitted, AdmittedQ,
    [Admitted EXCEPT !.object_kind = "push"],
    [Admitted EXCEPT !.after = ZeroSha],
    [Admitted EXCEPT !.after = "c1"],
    [Admitted EXCEPT !.commits = <<>>] }

\* Deliveries of tag-push events whose ref names a branch, besides PayloadsD.
PayloadsF ==
  PayloadsD \cup { [Admitted EXCEPT !.ref = <<"refs/heads/", "m">>],
                   [Admitted EXCEPT !.path = "R"] }

\* ------------------------------------------------------- webhook.py gateway
\* ref.startswith("refs/tags/") then ref.replace("refs/tags/", ""), else None
\* (None and the empty string are both falsy for the caller).
extract_tag_from_ref(ref) ==
  IF Len(ref) > 0 /\ ref[1] = RefsTags
    THEN SelectSeq(ref, LAMBDA x : x # RefsTags)
    ELSE <<>>

\* Ids of the enabled Repository rows with that name, in id order.
find_repositories(project_path) ==
  LET match(i) == Repositories[i].name = project_path /\ Repositories[i].enabled
  IN  SelectSeq([i \in DOMAIN Repositories |-> i], match)

\* select(Build).where(repository_id, platform_id, tag).first() is not None
existing_build(bs, repository, tag) ==
  \E b \in DOMAIN bs :
    /\ bs[b].repository_id = repository.id
    /\ bs[b].platform_id = repository.platform_id
    /\ bs[b].tag = tag

IdleReq ==
  [pc |-> "idle", payload |-> Admitted, tag |-> <<>>, repos |-> <<>>,
   build |-> 0, scheduled |-> <<>>, status |-> 0]

\* The handler is about to answer with that status code.
Responding(p, status) == [IdleReq EXCEPT !.pc = "respond", !.payload = p, !.status = status]

\* Response of the admission filter: 0 when the event is admitted.
FilterStatus(p) ==
  IF p.object_kind # "tag_push" THEN 200
  ELSE IF p.after = ZeroSha THEN 200
  ELSE IF extract_tag_from_ref(p.ref) = <<>> THEN 400
  ELSE IF p.commits # <<>> /\ p.after = p.commits[1] THEN 200
  ELSE IF find_repositories(p.path) = <<>> THEN 200
  ELSE 0

\* handle_gitlab_webhook up to the call of schedule_builds.
Deliver(h, p) ==
  /\ req[h].pc = "idle"
  /\ delivered < MaxDeliveries
  /\ delivered' = delivered + 1
  /\ req' = [req EXCEPT ![h] =
       IF FilterStatus(p) # 0
         THEN Responding(p, FilterStatus(p))
         ELSE [pc |-> "check", payload |-> p, tag |-> extract_tag_from_ref(p.ref),
               repos |-> find_repositories(p.path), build |-> 0,
               scheduled |-> <<>>, status |-> 0]]
  /\ UNCHANGED <<builds, artifacts, store, installations, taskq, wk, inst,
                 installs>>
  /\ UNCHANGED <<hookVars, dispVars, siteVars>>

NextRepo(r) ==
  [r EXCEPT !.repos = Tail(r.repos),
            !.pc = IF Tail(r.repos) = <<>> THEN "respond" ELSE "check",
            !.status = IF Tail(r.repos) = <<>> THEN 201 ELSE 0]

\* schedule_builds: the existence query for the next repository.
Check(h) ==
  /\ req[h].pc = "check"
  /\ LET repository == Repositories[Head(req[h].repos)]
     IN  req' = [req EXCEPT ![h] =
           IF existing_build(builds, repository, req[h].tag)
             THEN NextRepo(req[h])
             ELSE [req[h] EXCEPT !.pc = "insert"]]
  /\ UNCHANGED <<builds, artifacts, store, installations, taskq, wk, inst,
                 delivered, installs>>
  /\ UNCHANGED <<hookVars, dispVars, siteVars>>

NewBuild(repository, tag) ==
  [repository_id |-> repository.id, platform_id |-> repository.platform_id,
   tag |-> tag, status |-> SCHEDULED, output |-> <<>>]

\* schedule_builds: session.add(build); session.commit(); session.refresh(build)
Insert(h) ==
  /\ req[h].pc = "insert"
  /\ LET repository == Repositories[Head(req[h].repos)]
     IN  builds' = Append(builds, NewBuild(repository, req[h].tag))
  /\ req' = [req EXCEPT ![h].pc = "send", ![h].build = Len(builds) + 1]
  /\ UNCHANGED <<artifacts, store, installations, taskq, wk, inst,
                 delivered, installs>>
  /\ UNCHANGED <<hookVars, dispVars, siteVars>>

\* The commit raises: handle_gitlab_webhook answers 500.
InsertFail(h) ==
  /\ req[h].pc = "insert"
  /\ req' = [req EXCEPT ![h] = Responding(req[h].payload, 500)]
  /\ UNCHANGED <<builds, artifacts, store, installations, taskq, wk, inst,
                 delivered, installs>>
  /\ UNCHANGED <<hookVars, dispVars, siteVars>>

BuildTask(b, repository, tag, p) ==
  [build_id |-> b, repository_id |-> repository.id,
   platform_id |-> repository.platform_id, tag |-> tag,
   repository_name |-> repository.name, repository_type |-> repository.type,
   default_branch |-> p.default_branch]

\* notify_celery_worker: send_task, any exception is logged and swallowed;
\* then builds.append(build).
Send(h, sent) ==
  /\ req[h].pc = "send"
  /\ LET repository == Repositories[Head(req[h].repos)]
         task == BuildTask(req[h].build, repository, req[h].tag, req[h].payload)
     IN  taskq' = IF sent THEN Append(taskq, task) ELSE taskq
  /\ req' = [req EXCEPT ![h] =
       NextRepo([req[h] EXCEPT !.scheduled = Append(@, req[h].build)])]
  /\ UNCHANGED <<builds, artifacts, store, installations, wk, inst,
                 delivered, installs>>
  /\ UNCHANGED <<hookVars, dispVars, siteVars>>

\* A client of the broker sends 'inau.build.process_build' for a Build that
\* exists. The task is registered by name and takes any build_data; nothing
\* in build.py ties a build_id to a single message.
Resubmit(b) ==
  /\ b \in DOMAIN builds
  /\ Len(taskq) < MaxTasks
  /\ taskq' = Append(taskq, BuildTask(b, Repositories[builds[b].repository_id],
                                       builds[b].tag, AdmittedQ))
  /\ UNCHANGED <<builds, artifacts, store, installations, req, wk, inst,
                 delivered, installs>>
  /\ UNCHANGED <<hookVars, dispVars, siteVars>>

\* handle_gitlab_webhook: the response is sent and the request ends.
Respond(h) ==
  /\ req[h].pc = "respond"
  /\ req' = [req EXCEPT ![h] = IdleReq]
  /\ UNCHANGED <<builds, artifacts, store, installations, taskq, wk, inst,
                 delivered, installs>>
  /\ UNCHANGED <<hookVars, dispVars, siteVars>>


\* ------------------------------------------------------ build.py worker
\* Files a remote build leaves in the output base directory, in walk order.
\* link = TRUE for a symbolic link (to a regular file of the same directory).
\* The content of a file is its sequence of blocks.
\* A file name and a link target are relative paths, kept as the sequence of
\* their components ("lib/", "cmake/", "fooConfig.cmake").
NoTarget == <<>>

File(name, content) ==
  [filename |-> name, link |-> FALSE, content |-> content, target |-> NoTarget]
Link(name, target) == [filename |-> name, link |-> TRUE, content |-> <<>>, target |-> target]

X1 == <<"x", "1">>
X2 == <<"x", "2">>

Trees ==
  { <<>>,
    << File(<<"foo">>, X1), Link(<<"foo-1.0">>, <<"foo">>) >>,
    << File(<<"lib/", "libfoo.so">>, X1),
       File(<<"lib/", "cmake/", "fooConfig.cmake">>, X2) >> }

\* hashlib.sha256(...).hexdigest(): distinct contents, distinct digests.
Sha256(content) == <<"a", "b", "c", "d", content>>

\* Path(STORE_BASE_DIR) / file_hash[:2] / file_hash[2:4] / file_hash
StorePath(file_hash) == <<SubSeq(file_hash, 1, 2), SubSeq(file_hash, 3, 4), file_hash>>

NoHash == <<>>

\* Lines of `git branch --no-color --contains <tag>`, one per local branch:
\* a two-character marker, then the branch name.
BranchNames == { <<"m">>, <<"m", "x">>, <<"x">> }
BranchLine(name) == <<" ", " ">> \o name

\* update_repository's check: any(task.default_branch in branch for branch in branches)
TagInDefaultBranch(default_branch, contains) ==
  \E name \in contains : IsSubstring(default_branch, BranchLine(name))

\* The tag is reachable from the default branch: the default branch is one
\* of the branches that contain it.
Reachable(default_branch, contains) == default_branch \in contains

NoTask ==
  [build_id |-> 0, repository_id |-> 0, platform_id |-> 0, tag |-> <<>>,
   repository_name |-> "", repository_type |-> 0, default_branch |-> <<>>]

\* output: the text of the pending exception or of the build; updated, built,
\* exit_status, collected: how far the job got.
IdleWorker ==
  [pc |-> "idle", task |-> NoTask, output |-> <<>>, tree |-> <<>>,
   idx |-> 1, arts |-> {}, reachable |-> FALSE, updated |-> FALSE,
   built |-> FALSE, exit_status |-> 0, collected |-> FALSE]

\* process_build, called with the next task of 'build_queue':
\* session.get(Build, build_id); status = RUNNING; commit.
Start(w) ==
  /\ wk[w].pc = "idle"
  /\ taskq # <<>>
  /\ taskq' = Tail(taskq)
  /\ LET b == Head(taskq).build_id
     IN  IF b \in DOMAIN builds
           THEN /\ builds' = [builds EXCEPT ![b].status = RUNNING]
                /\ wk' = [wk EXCEPT ![w] =
                     [IdleWorker EXCEPT !.pc = "update", !.task = Head(taskq)]]
           ELSE /\ builds' = builds
                /\ wk' = wk
  /\ UNCHANGED <<artifacts, store, installations, req, inst,
                 delivered, installs>>
  /\ UNCHANGED <<hookVars, dispVars, siteVars>>

get_builder(platform_id) ==
  \E i \in DOMAIN Builders : Builders[i].platform_id = platform_id

\* update_repository returns (False, message); process_build raises
\* Exception(f"Repository update failed: {message}").
UpdateFailed(message) == <<"Repository update failed: ", message>>

\* process_build: get_builder, then update_repository. gitok = FALSE stands
\* for any git failure (network, missing tag, submodule error).
Update(w, gitok, contains) ==
  /\ wk[w].pc = "update"
  /\ wk' = [wk EXCEPT ![w] =
       IF ~get_builder(wk[w].task.platform_id)
         THEN [@ EXCEPT !.pc = "except", !.output = <<"no-builder">>]
       ELSE IF ~gitok
         THEN [@ EXCEPT !.pc = "except", !.output = UpdateFailed("git-error")]
       ELSE IF ~TagInDefaultBranch(wk[w].task.default_branch, contains)
         THEN [@ EXCEPT !.pc = "except",
                        !.output = UpdateFailed("tag-not-in-default-branch")]
       ELSE [@ EXCEPT !.pc = "build", !.updated = TRUE,
                      !.reachable = Reachable(wk[w].task.default_branch, contains)]]
  /\ UNCHANGED <<builds, artifacts, store, installations, taskq, req, inst,
                 delivered, installs>>
  /\ UNCHANGED <<hookVars, dispVars, siteVars>>

\* Outcomes of build_on_builder: (exit_status, output); -1 is an SSH failure.
BuildOutcomes ==
  { [exit_status |-> 0, output |-> <<"make-ok">>],
    [exit_status |-> 2, output |-> <<"missing-include">>],
    [exit_status |-> -1, output |-> <<"ssh-error">>] }

\* process_build recording SUCCESS whatever the exit status.
RemoteBuild_IgnoresExit(w, outcome, tree) ==
  /\ wk[w].pc = "build"
  /\ builds' = [builds EXCEPT ![wk[w].task.build_id] =
       [@ EXCEPT !.status = SUCCESS, !.output = outcome.output]]
  /\ wk' = [wk EXCEPT ![w] =
       IF outcome.exit_status = 0
         THEN [@ EXCEPT !.pc = "collect", !.tree = tree, !.output = outcome.output,
                        !.built = TRUE, !.exit_status = 0]
         ELSE [@ EXCEPT !.pc = "notify", !.output = outcome.output,
                        !.built = TRUE, !.exit_status = outcome.exit_status]]
  /\ UNCHANGED <<artifacts, store, installations, taskq, req, inst,
                 delivered, installs>>
  /\ UNCHANGED <<hookVars, dispVars, siteVars>>

\* process_build: build_on_builder, then the outcome is committed.
RemoteBuild(w, outcome, tree) ==
  /\ wk[w].pc = "build"
  /\ builds' = [builds EXCEPT ![wk[w].task.build_id] =
       [@ EXCEPT !.status = IF outcome.exit_status = 0 THEN SUCCESS ELSE FAILED,
                 !.output = outcome.output]]
  /\ wk' = [wk EXCEPT ![w] =
       IF outcome.exit_status = 0
         THEN [@ EXCEPT !.pc = "collect", !.tree = tree, !.output = outcome.output,
                        !.built = TRUE, !.exit_status = 0]
         ELSE [@ EXCEPT !.pc = "notify", !.output = outcome.output,
                        !.built = TRUE, !.exit_status = outcome.exit_status]]
  /\ UNCHANGED <<artifacts, store, installations, taskq, req, inst,
                 delivered, installs>>
  /\ UNCHANGED <<hookVars, dispVars, siteVars>>

\* _hash_and_store_file finding every store path present.
hash_and_store_file_NoCopy(st, content) == st

\* _hash_and_store_file up to the opening of the destination: when the store
\* path does not exist, shutil.copy2 creates it, empty, and then writes it
\* block by block. There is no temporary file and no rename.
hash_and_store_file(st, content) ==
  LET store_path == StorePath(Sha256(content))
  IN  IF store_path \in DOMAIN st THEN st ELSE (store_path :> <<>>) @@ st

NewArtifact(build_id, f) ==
  IF f.link
    THEN [build_id |-> build_id, filename |-> f.filename,
          hash |-> NoHash, symlink_target |-> f.target]
    ELSE [build_id |-> build_id, filename |-> f.filename,
          hash |-> Sha256(f.content), symlink_target |-> NoTarget]

\* collect_artifacts committing the Artifact of a file that needs no copy
\* inside the walk.
CollectFile_CommitEach(w) ==
  /\ wk[w].pc = "collect"
  /\ wk[w].idx <= Len(wk[w].tree)
  /\ LET f == wk[w].tree[wk[w].idx]
         artifact == NewArtifact(wk[w].task.build_id, f)
         opened == IF f.link THEN store ELSE hash_and_store_file(store, f.content)
     IN  /\ store' = opened
         /\ artifacts' = IF opened = store THEN artifacts \cup {artifact} ELSE artifacts
         /\ wk' = IF opened = store
                    THEN [wk EXCEPT ![w].idx = @ + 1, ![w].arts = @ \cup {artifact}]
                    ELSE [wk EXCEPT ![w].pc = "copy"]
  /\ UNCHANGED <<builds, installations, taskq, req, inst, delivered, installs>>
  /\ UNCHANGED <<hookVars, dispVars, siteVars>>

\* collect_artifacts: one iteration of the walk, up to the copy if the file
\* is a regular file whose store path does not exist.
CollectFile(w) ==
  /\ wk[w].pc = "collect"
  /\ wk[w].idx <= Len(wk[w].tree)
  /\ LET f == wk[w].tree[wk[w].idx]
         artifact == NewArtifact(wk[w].task.build_id, f)
         opened == IF f.link THEN store ELSE hash_and_store_file(store, f.content)
     IN  /\ store' = opened
         /\ wk' = IF opened = store
                    THEN [wk EXCEPT ![w].idx = @ + 1, ![w].arts = @ \cup {artifact}]
                    ELSE [wk EXCEPT ![w].pc = "copy"]
  /\ UNCHANGED <<builds, artifacts, installations, taskq, req, inst,
                 delivered, installs>>
  /\ UNCHANGED <<hookVars, dispVars, siteVars>>

\* shutil.copy2 writes the next block of the file to the store path; after
\* the last block _hash_and_store_file returns and the Artifact is appended.
CopyBlock(w) ==
  /\ wk[w].pc = "copy"
  /\ LET f == wk[w].tree[wk[w].idx]
         store_path == StorePath(Sha256(f.content))
         written == Append(store[store_path], f.content[Len(store[store_path]) + 1])
     IN  /\ store' = [store EXCEPT ![store_path] = written]
         /\ wk' = IF written = f.content
                    THEN [wk EXCEPT ![w].pc = "collect", ![w].idx = @ + 1,
                                    ![w].arts = @ \cup {NewArtifact(wk[w].task.build_id, f)}]
                    ELSE wk
  /\ UNCHANGED <<builds, artifacts, installations, taskq, req, inst,
                 delivered, installs>>
  /\ UNCHANGED <<hookVars, dispVars, siteVars>>

\* collect_artifacts: the ingestion of a regular file raises (disk full, I/O
\* error), before the copy or in the middle of it; what shutil.copy2 has
\* written stays at the store path. The exception reaches process_build's
\* handler.
CollectFail(w) ==
  /\ \/ wk[w].pc = "copy"
     \/ /\ wk[w].pc = "collect"
        /\ wk[w].idx <= Len(wk[w].tree)
        /\ ~wk[w].tree[wk[w].idx].link
  /\ wk' = [wk EXCEPT ![w].pc = "except", ![w].output = <<"storage-error">>]
  /\ UNCHANGED <<builds, artifacts, store, installations, taskq, req, inst,
                 delivered, installs>>
  /\ UNCHANGED <<hookVars, dispVars, siteVars>>

\* collect_artifacts: session.add_all(artifacts); session.commit()
CollectCommit(w) ==
  /\ wk[w].pc = "collect"
  /\ wk[w].idx > Len(wk[w].tree)
  /\ artifacts' = artifacts \cup wk[w].arts
  /\ wk' = [wk EXCEPT ![w].pc = "notify", ![w].collected = TRUE]
  /\ UNCHANGED <<builds, store, installations, taskq, req, inst,
                 delivered, installs>>
  /\ UNCHANGED <<hookVars, dispVars, siteVars>>

\* process_build's except branch committing what the walk has gathered.
Except_CommitsPending(w) ==
  /\ wk[w].pc = "except"
  /\ builds' = [builds EXCEPT ![wk[w].task.build_id] =
       [@ EXCEPT !.status = FAILED, !.output = wk[w].output]]
  /\ artifacts' = artifacts \cup wk[w].arts
  /\ wk' = [wk EXCEPT ![w].pc = "notify"]
  /\ UNCHANGED <<store, installations, taskq, req, inst, delivered, installs>>
  /\ UNCHANGED <<hookVars, dispVars, siteVars>>

\* process_build's except branch: status = FAILED, output = str(e), commit.
Except(w) ==
  /\ wk[w].pc = "except"
  /\ builds' = [builds EXCEPT ![wk[w].task.build_id] =
       [@ EXCEPT !.status = FAILED, !.output = wk[w].output]]
  /\ wk' = [wk EXCEPT ![w].pc = "notify"]
  /\ UNCHANGED <<artifacts, store, installations, taskq, req, inst,
                 delivered, installs>>
  /\ UNCHANGED <<hookVars, dispVars, siteVars>>

\* send_notification (its failures are swallowed), then the task returns.
Notify(w) ==
  /\ wk[w].pc = "notify"
  /\ wk' = [wk EXCEPT ![w] = IdleWorker]
  /\ UNCHANGED <<builds, artifacts, store, installations, taskq, req, inst,
                 delivered, installs>>
  /\ UNCHANGED <<hookVars, dispVars, siteVars>>

\* ------------------------------------------------------ restapi.py installer
Installers == 1..NumInstallers

\* dests: the destinations still to serve, each a server with its hosts.
IdleInst ==
  [pc |-> "idle", reponame |-> "", tag |-> <<>>, itype |-> GLOBAL, dests |-> <<>>,
   build |-> 0, pending |-> <<>>, now |-> 0, status |-> 0]

\* The request is about to end with that status code. The rows still in
\* pending were added to the session and not committed: they are discarded
\* with the session.
Replying(i, status) == [i EXCEPT !.pc = "reply", !.status = status]

HostsOf(server) ==
  SelectSeq([i \in DOMAIN Hosts |-> i], LAMBDA k : Hosts[k].server_id = server.id)

\* create_global_installation: every server of a platform that has an
\* enabled repository of that name, when the server has hosts.
GlobalDestinations(reponame) ==
  LET hasRepo(i) ==
        /\ \E r \in DOMAIN Repositories :
             /\ Repositories[r].name = reponame
             /\ Repositories[r].enabled
             /\ Repositories[r].platform_id = Servers[i].platform_id
        /\ \E k \in DOMAIN Hosts : Hosts[k].server_id = Servers[i].id
      servers == SelectSeq([i \in DOMAIN Servers |-> i], hasRepo)
  IN  [k \in DOMAIN servers |->
         [server |-> servers[k], hosts |-> HostsOf(Servers[servers[k]])]]

\* create_facility_installation: for every enabled repository of that name,
\* every server of its platform with the hosts it serves in the facility,
\* when there are any.
FacilityDestinations(facility, reponame) ==
  LET hostsIn(i) == SelectSeq(HostsOf(Servers[i]), LAMBDA k : Hosts[k].facility = facility)
      hasRepo(i) ==
        /\ \E r \in DOMAIN Repositories :
             /\ Repositories[r].name = reponame
             /\ Repositories[r].enabled
             /\ Repositories[r].platform_id = Servers[i].platform_id
        /\ hostsIn(i) # <<>>
      servers == SelectSeq([i \in DOMAIN Servers |-> i], hasRepo)
  IN  [k \in DOMAIN servers |-> [server |-> servers[k], hosts |-> hostsIn(servers[k])]]

\* create_host_installation: destinations = {host.server: [host]}.
HostDestinations(h) ==
  << [server |-> CHOOSE i \in DOMAIN Servers : Servers[i].id = Hosts[h].server_id,
      hosts |-> <<h>>] >>

\* select(Repository).where(platform_id, name).first(): 0 when there is none.
RepositoryFor(platform_id, reponame) ==
  LET ids == {r \in DOMAIN Repositories :
                /\ Repositories[r].platform_id = platform_id
                /\ Repositories[r].name = reponame}
  IN  IF ids = {} THEN 0 ELSE CHOOSE r \in ids : \A q \in ids : r <= q

\* The same query ordered by Build.id ascending.
LatestSuccess_Lowest(bs, repository_id, tag) ==
  LET ids == {b \in DOMAIN bs :
                /\ bs[b].repository_id = repository_id
                /\ bs[b].tag = tag
                /\ bs[b].status = SUCCESS}
  IN  IF ids = {} THEN 0 ELSE CHOOSE b \in ids : \A q \in ids : b <= q

\* select(Build).where(repository_id, tag, status == SUCCESS)
\*   .order_by(Build.id.desc()).first(): 0 when there is none.
LatestSuccess(bs, repository_id, tag) ==
  LET ids == {b \in DOMAIN bs :
                /\ bs[b].repository_id = repository_id
                /\ bs[b].tag = tag
                /\ bs[b].status = SUCCESS}
  IN  IF ids = {} THEN 0 ELSE CHOOSE b \in ids : \A q \in ids : b >= q

InstallNames == { "Q", "R" }
InstallTags == { <<"t1">>, <<"t2">> }

\* datetime.utcnow() at the start of install(): the number of requests
\* started so far, plus one.
UtcNow ==
  LET started[k \in 0..NumInstallers] ==
        IF k = 0 THEN 0 ELSE started[k - 1] + installs[k]
  IN  started[NumInstallers] + 1

\* install() up to its loop over the destinations.
InstallStart(n, reponame, tag, itype, destinations) ==
  /\ inst[n].pc = "idle"
  /\ installs[n] < MaxInstalls
  /\ installs' = [installs EXCEPT ![n] = @ + 1]
  /\ inst' = [inst EXCEPT ![n] =
       IF destinations = <<>>
         THEN Replying(IdleInst, 404)
         ELSE [pc |-> "select", reponame |-> reponame, tag |-> tag,
               itype |-> itype, dests |-> destinations, build |-> 0,
               pending |-> <<>>, now |-> UtcNow, status |-> 0]]
  /\ UNCHANGED <<builds, artifacts, store, installations, taskq, req, wk,
                 delivered>>
  /\ UNCHANGED <<hookVars, dispVars, siteVars>>

\* POST /v2/cs/installations, up to the loop of install().
InstallRequest(n, reponame, tag) ==
  InstallStart(n, reponame, tag, GLOBAL, GlobalDestinations(reponame))

\* POST /v2/cs/facilities/{facility}/installations, up to the loop of
\* install().
FacilityInstallRequest(n, facility, reponame, tag) ==
  InstallStart(n, reponame, tag, FACILITY, FacilityDestinations(facility, reponame))

\* POST /v2/cs/facilities/{facility}/hosts/{host}/installations, up to the
\* loop of install().
HostInstallRequest(n, h, reponame, tag) ==
  InstallStart(n, reponame, tag, HOST, HostDestinations(h))

NextServer(i) ==
  [i EXCEPT !.dests = Tail(i.dests), !.build = 0,
            !.pc = IF Tail(i.dests) = <<>> THEN "commit" ELSE "select"]

\* install(): resolve the repository and the build for the next server.
InstallSelect(n) ==
  /\ inst[n].pc = "select"
  /\ LET server == Servers[Head(inst[n].dests).server]
         r == RepositoryFor(server.platform_id, inst[n].reponame)
         b == IF r = 0 THEN 0 ELSE LatestSuccess(builds, Repositories[r].id, inst[n].tag)
     IN  inst' = [inst EXCEPT ![n] =
           IF r = 0 THEN NextServer(inst[n])
           ELSE IF b = 0 THEN Replying(inst[n], 404)
           ELSE [inst[n] EXCEPT !.pc = "place", !.build = b]]
  /\ UNCHANGED <<builds, artifacts, store, installations, taskq, req, wk,
                 delivered, installs>>
  /\ UNCHANGED <<hookVars, dispVars, siteVars>>

\* Installation(...) without valid_from: the column's default_factory takes
\* the time at which the row is built, later than now.
NewInstallation_DefaultValidFrom(host, i) ==
  [host_id |-> host.id, build_id |-> i.build, type |-> i.itype,
   install_date |-> i.now, valid_from |-> i.now + 1, valid_to |-> 0]

\* install(): Installation(host_id, build_id, type, install_date=now,
\* valid_from=now); valid_to keeps its default, null (0 here).
NewInstallation(host, i) ==
  [host_id |-> host.id, build_id |-> i.build, type |-> i.itype,
   install_date |-> i.now, valid_from |-> i.now, valid_to |-> 0]

\* install(): the path at which the installer opens an artifact's blob.
HashPath(file_hash) == <<SubSeq(file_hash, 1, 2), SubSeq(file_hash, 3, 4), file_hash>>

\* install() writing a HOST-scope install at the paths of the shared prefix.
DestPath_Shared(server, repository, itype, host, a) ==
  IF a.hash # NoHash
    THEN <<server.prefix, repository.destination>> \o a.filename
    ELSE <<server.prefix>> \o a.filename

\* install(): dest_path of a regular file and link_path of a symlink, as the
\* sequence of the strings the f-string joins. The symlink paths leave out
\* repository.destination.
DestPath(server, repository, itype, host, a) ==
  IF a.hash # NoHash
    THEN IF itype = HOST
           THEN <<server.prefix, "/site/", host.name, "/", repository.destination>>
                  \o a.filename
           ELSE <<server.prefix, repository.destination>> \o a.filename
    ELSE IF itype = HOST
           THEN <<server.prefix, "/site/", host.name, "/">> \o a.filename
           ELSE <<server.prefix>> \o a.filename

\* install(): target_path of a symlink, the first argument of ln -sfn.
TargetPath(server, itype, host, a) ==
  IF a.hash # NoHash THEN <<>>
  ELSE IF itype = HOST
    THEN <<server.prefix, "/site/", host.name, "/">> \o a.symlink_target
    ELSE <<server.prefix>> \o a.symlink_target

\* What placing the artifacts of a build on a server leaves there: at each
\* path the bytes sftp.put reads at the hash path, or the symlink.
Placed(server, repository, itype, host, arts, st) ==
  { [server_id |-> server.id,
     path |-> DestPath(server, repository, itype, host, a),
     filename |-> a.filename, hash |-> a.hash,
     content |-> IF a.hash # NoHash THEN st[HashPath(a.hash)] ELSE <<>>,
     symlink_target |-> a.symlink_target,
     points_to |-> TargetPath(server, itype, host, a)] : a \in arts }

\* install -m and ln -sfn replace what is at the path.
Replace(files, new) ==
  {f \in files : ~\E g \in new : g.server_id = f.server_id /\ g.path = f.path}
    \cup new

PlaceOutcomes == { "placed", "unplaced", "raised" }

\* install(): the artifacts of the build are placed over SSH/SFTP, then one
\* Installation per host is added to the session.
\*   "raised":   ssh.connect, open_sftp or sftp.put raises; the request ends
\*               with 500. sftp.put raises when the hash path does not exist.
\*   "placed":   every remote command does its work.
\*   "unplaced": the remote mkdir/install/ln commands fail (exit status not
\*               0); exec_command returns without waiting and nothing reads
\*               the exit status, so install() goes on as if they had worked.
InstallPlace(n, outcome) ==
  /\ inst[n].pc = "place"
  /\ LET server == Servers[Head(inst[n].dests).server]
         hosts == Head(inst[n].dests).hosts
         repository == Repositories[RepositoryFor(server.platform_id, inst[n].reponame)]
         rows == [k \in DOMAIN hosts |-> NewInstallation(Hosts[hosts[k]], inst[n])]
         arts == {a \in artifacts : a.build_id = inst[n].build}
         readable == \A a \in arts : a.hash # NoHash => HashPath(a.hash) \in DOMAIN store
         files == Placed(server, repository, inst[n].itype, Hosts[hosts[1]], arts, store)
     IN  /\ outcome = "placed" => readable
         /\ outcome = "unplaced" => readable /\ arts # {}
         /\ remote' = IF outcome = "placed" THEN Replace(remote, files) ELSE remote
         /\ issued' = IF outcome = "raised"
                        THEN issued
                        ELSE issued \cup {[server_id |-> server.id, files |-> files]}
         /\ inst' = [inst EXCEPT ![n] =
              IF outcome = "raised"
                THEN Replying(inst[n], 500)
                ELSE NextServer([inst[n] EXCEPT !.pending = @ \o rows])]
  /\ UNCHANGED <<builds, artifacts, store, installations, taskq, req, wk,
                 delivered, installs, chan>>
  /\ UNCHANGED <<hookVars, dispVars>>

\* install(): session.commit() after the loop.
InstallCommit(n) ==
  /\ inst[n].pc = "commit"
  /\ installations' = installations \o inst[n].pending
  /\ inst' = [inst EXCEPT ![n] = Replying([inst[n] EXCEPT !.pending = <<>>], 200)]
  /\ UNCHANGED <<builds, artifacts, store, taskq, req, wk,
                 delivered, installs>>
  /\ UNCHANGED <<hookVars, dispVars, siteVars>>

\* The response is sent and the request ends.
InstallReply(n) ==
  /\ inst[n].pc = "reply"
  /\ inst' = [inst EXCEPT ![n] = IdleInst]
  /\ UNCHANGED <<builds, artifacts, store, installations, taskq, req, wk,
                 delivered, installs>>
  /\ UNCHANGED <<hookVars, dispVars, siteVars>>

\* ------------------------------------------------- inau-dispatcher.py
Platforms == {Builders[i].platform_id : i \in DOMAIN Builders}

\* No job: the value of the handler's local before the first queue.get().
NoJob == [kind |-> "none", jid |-> 0, repository_id |-> 0, repository_name |-> "",
          repository_type |-> 0, build_tag |-> <<>>, status |-> "", output |-> ""]

Die == [NoJob EXCEPT !.kind = "die"]

\* Store(repository_name, repository_url, build_tag, repository_id, ...)
StoreJob(jid, r, ref) ==
  [kind |-> "store", jid |-> jid, repository_id |-> r.id, repository_name |-> r.name,
   repository_type |-> r.type, build_tag |-> ref, status |-> "", output |-> ""]

\* Every Builder object the service can construct: one per Builders row at
\* start-up and one more per row at each reconcile().
BuilderObjects == 1..(Len(Builders) * (1 + MaxReconciles))

IdleProc == [pc |-> "get", job |-> NoJob]

\* The process has ended with a traceback: an exception left handler().
DeadProc == [pc |-> "dead", job |-> NoJob]

\* handler(): the except clauses call sendEmailAdmins before logging and
\* rollback. __sendEmail opens an SMTP connection, and what it raises is
\* raised inside the except clause: it leaves the while loop and the process
\* ends. Without the mail failure the loop goes on to the next queue.get().
Reported(mailok) == IF mailok THEN IdleProc ELSE DeadProc

\* session.query(db.Builders).all() has no ORDER BY: the rows come in the
\* order the database returns them. An order is a permutation of the row
\* positions; reconcile() groups the rows by platform, so only the order of
\* the rows of one platform shows, and the orders kept are those that list
\* the platforms in ascending order.
IdOrder == [i \in DOMAIN Builders |-> i]

RowOrders ==
  {o \in [DOMAIN Builders -> DOMAIN Builders] :
     /\ \A i, j \in DOMAIN Builders : o[i] = o[j] => i = j
     /\ \A i, j \in DOMAIN Builders :
          i < j => Builders[o[i]].platform_id <= Builders[o[j]].platform_id}

\* reconcile(): one Builder object (queue and started process) per Builders
\* row, in the order of the query; name is the Builders row it was made from.
NewBuilders(order) ==
  [i \in DOMAIN Builders |-> [name |-> Builders[order[i]].id,
                              platform_id |-> Builders[order[i]].platform_id]]

\* The new objects grouped by platform, each list in the order of the query.
\* base = number of objects before.
NewPool(base, order) ==
  [p \in Platforms |->
     SelectSeq([i \in DOMAIN Builders |-> base + i],
               LAMBDA o : Builders[order[o - base]].platform_id = p)]

\* oldbuilders.values(), flattened in the order reconcile() visits them.
RECURSIVE Flatten(_, _)
Flatten(pool, ps) ==
  IF ps = {} THEN <<>>
  ELSE LET p == CHOOSE x \in ps : \A y \in ps : x <= y
       IN  pool[p] \o Flatten(pool, ps \ {p})

\* allbuilders[p].index(min(allbuilders[p], key=lambda x: x.queue.qsize())):
\* the first builder of the list with the smallest queue length.
ShortestQueue(list, queues) ==
  CHOOSE k \in DOMAIN list :
    /\ \A j \in DOMAIN list : Len(queues[list[k]]) <= Len(queues[list[j]])
    /\ \A j \in 1..(k - 1) : Len(queues[list[j]]) > Len(queues[list[k]])

IdleFrame ==
  [op |-> "post", pc |-> "select", payload |-> Admitted, repos |-> <<>>, idx |-> 0,
   builder |-> 0, old |-> <<>>, status |-> 0]

Top == main[Len(main)]
Pop == SubSeq(main, 1, Len(main) - 1)
SetTop(f) == [main EXCEPT ![Len(main)] = f]

\* Repositories rows with that name, enabled or not, in id order.
RepositoriesNamed(name) ==
  SelectSeq([i \in DOMAIN Repositories |-> i], LAMBDA i : Repositories[i].name = name)

\* Server.do_POST up to its loop over the repositories. The single-threaded
\* HTTPServer handles one request at a time.
DoPost(p) ==
  /\ main = <<>>
  /\ posts < MaxPosts
  /\ posts' = posts + 1
  /\ main' = << IF p.after = ZeroSha
                  THEN [IdleFrame EXCEPT !.pc = "respond", !.status = 200, !.payload = p]
                ELSE IF p.commits = <<>>
                  THEN [IdleFrame EXCEPT !.pc = "respond", !.status = 500, !.payload = p]
                ELSE IF p.after = p.commits[1]
                  THEN [IdleFrame EXCEPT !.pc = "respond", !.status = 200, !.payload = p]
                ELSE [IdleFrame EXCEPT !.payload = p,
                                       !.repos = RepositoriesNamed(p.path)] >>
  /\ UNCHANGED <<allbuilders, bld, bqueue, bproc, reconciles>>
  /\ UNCHANGED <<celeryVars, hookVars, siteVars>>

\* do_POST: next repository of the loop; the builder index is chosen.
PostSelect ==
  /\ main # <<>>
  /\ Top.op = "post" /\ Top.pc = "select"
  /\ main' = SetTop(
       IF Top.repos = <<>>
         THEN [Top EXCEPT !.pc = "respond", !.status = 200]
       ELSE LET r == Repositories[Head(Top.repos)]
            IN  IF ~(Top.payload.object_kind = "tag_push" /\ r.enabled)
                  THEN [Top EXCEPT !.repos = Tail(@)]
                ELSE IF r.platform_id \notin Platforms
                  THEN [Top EXCEPT !.pc = "respond", !.status = 500]
                ELSE [Top EXCEPT !.pc = "put",
                                 !.idx = ShortestQueue(allbuilders[r.platform_id], bqueue)])
  /\ UNCHANGED <<allbuilders, bld, bqueue, bproc, posts, reconciles>>
  /\ UNCHANGED <<celeryVars, hookVars, siteVars>>

\* do_POST: allbuilders[r.platform_id][idx] of the put statement; the global
\* is read again here, after the logger call.
PostLoad ==
  /\ main # <<>>
  /\ Top.op = "post" /\ Top.pc = "put"
  /\ LET r == Repositories[Head(Top.repos)]
     IN  main' = SetTop([Top EXCEPT !.pc = "call",
                                    !.builder = allbuilders[r.platform_id][Top.idx]])
  /\ UNCHANGED <<allbuilders, bld, bqueue, bproc, posts, reconciles>>
  /\ UNCHANGED <<celeryVars, hookVars, siteVars>>

\* do_POST: .queue.put(job) on the Builder object that was looked up. A
\* signal handler runs between two bytecode instructions of the main thread,
\* so reconcile() can run after the lookup and before the job is on the queue.
PostPut ==
  /\ main # <<>>
  /\ Top.op = "post" /\ Top.pc = "call"
  /\ LET r == Repositories[Head(Top.repos)]
         jid == 10 * posts + Head(Top.repos)
     IN  bqueue' = [bqueue EXCEPT ![Top.builder] = Append(@, StoreJob(jid, r, Top.payload.ref))]
  /\ main' = SetTop([Top EXCEPT !.pc = "select", !.repos = Tail(@), !.idx = 0,
                                 !.builder = 0])
  /\ UNCHANGED <<allbuilders, bld, bproc, posts, reconciles>>
  /\ UNCHANGED <<celeryVars, hookVars, siteVars>>

\* do_POST: send_response, and the request ends.
PostRespond ==
  /\ main # <<>>
  /\ Top.op = "post" /\ Top.pc = "respond"
  /\ main' = Pop
  /\ UNCHANGED <<allbuilders, bld, bqueue, bproc, posts, reconciles>>
  /\ UNCHANGED <<celeryVars, hookVars, siteVars>>

\* Builder.handler reading a queue shared by the builders of its platform.
HandlerGet_SharedQueue(i) ==
  /\ i \in DOMAIN bld
  /\ bproc[i].pc = "get"
  /\ \E j \in DOMAIN bld :
       /\ bld[j].platform_id = bld[i].platform_id
       /\ bqueue[j] # <<>>
       /\ bqueue' = [bqueue EXCEPT ![j] = Tail(@)]
       /\ bproc' = [bproc EXCEPT ![i] =
            IF Head(bqueue[j]).kind = "die"
              THEN [pc |-> "exited", job |-> NoJob]
              ELSE [pc |-> "update", job |-> Head(bqueue[j])]]
  /\ UNCHANGED <<allbuilders, bld, main, posts, reconciles>>
  /\ UNCHANGED <<celeryVars, hookVars, siteVars>>

\* Builder.handler: job = self.queue.get(); a Die ends the process.
HandlerGet(i) ==
  /\ i \in DOMAIN bld
  /\ bproc[i].pc = "get"
  /\ bqueue[i] # <<>>
  /\ bqueue' = [bqueue EXCEPT ![i] = Tail(@)]
  /\ bproc' = [bproc EXCEPT ![i] =
       IF Head(bqueue[i]).kind = "die"
         THEN [pc |-> "exited", job |-> NoJob]
         ELSE [pc |-> "update", job |-> Head(bqueue[i])]]
  /\ UNCHANGED <<allbuilders, bld, main, posts, reconciles>>
  /\ UNCHANGED <<celeryVars, hookVars, siteVars>>

\* Builder.update: a git command that fails raises CalledProcessError, which
\* handler() reports and the job is dropped. There is no branch check.
HandlerUpdate(i, gitok, mailok) ==
  /\ i \in DOMAIN bld
  /\ bproc[i].pc = "update"
  /\ bproc' = [bproc EXCEPT ![i] =
       IF gitok THEN [@ EXCEPT !.pc = "build"] ELSE Reported(mailok)]
  /\ UNCHANGED <<allbuilders, bld, bqueue, main, posts, reconciles>>
  /\ UNCHANGED <<celeryVars, hookVars, siteVars>>

\* Builder.build: after the ssh connection (which may raise) the comparison
\* with db.RepositoryType.library raises AttributeError, lib/db.py defining no
\* such member; handler() reports the exception and the job is dropped.
\* Builder.store is therefore never reached.
HandlerBuild(i, mailok) ==
  /\ i \in DOMAIN bld
  /\ bproc[i].pc = "build"
  /\ bproc' = [bproc EXCEPT ![i] = Reported(mailok)]
  /\ UNCHANGED <<allbuilders, bld, bqueue, main, posts, reconciles>>
  /\ UNCHANGED <<celeryVars, hookVars, siteVars>>

\* SIGHUP: signalHandler runs reconcile() in the main process, on top of
\* whatever the main process was doing.
Sighup ==
  /\ reconciles < MaxReconciles
  /\ reconciles' = reconciles + 1
  /\ main' = Append(main, [IdleFrame EXCEPT !.op = "reconcile", !.pc = "swap"])
  /\ UNCHANGED <<allbuilders, bld, bqueue, bproc, posts>>
  /\ UNCHANGED <<celeryVars, hookVars, siteVars>>

\* reconcile(): a new Builder per Builders row, then allbuilders = newbuilders.
ReconcileSwap(order) ==
  /\ main # <<>>
  /\ Top.op = "reconcile" /\ Top.pc = "swap"
  /\ bld' = bld \o NewBuilders(order)
  /\ bqueue' = bqueue \o [i \in DOMAIN Builders |-> <<>>]
  /\ bproc' = bproc \o [i \in DOMAIN Builders |-> IdleProc]
  /\ allbuilders' = NewPool(Len(bld), order)
  /\ main' = SetTop([Top EXCEPT !.pc = "die", !.old = Flatten(allbuilders, Platforms)])
  /\ UNCHANGED <<posts, reconciles>>
  /\ UNCHANGED <<celeryVars, hookVars, siteVars>>

\* reconcile(): b.queue.put(Die()) for the next old builder.
ReconcileDie ==
  /\ main # <<>>
  /\ Top.op = "reconcile" /\ Top.pc = "die"
  /\ Top.old # <<>>
  /\ bqueue' = [bqueue EXCEPT ![Head(Top.old)] = Append(@, Die)]
  /\ main' = SetTop([Top EXCEPT !.pc = "join"])
  /\ UNCHANGED <<allbuilders, bld, bproc, posts, reconciles>>
  /\ UNCHANGED <<celeryVars, hookVars, siteVars>>

\* reconcile(): b.process.join() returns once that process has ended.
ReconcileJoin ==
  /\ main # <<>>
  /\ Top.op = "reconcile" /\ Top.pc = "join"
  /\ bproc[Head(Top.old)].pc \in {"exited", "dead"}
  /\ main' = SetTop([Top EXCEPT !.pc = "die", !.old = Tail(@)])
  /\ UNCHANGED <<allbuilders, bld, bqueue, bproc, posts, reconciles>>
  /\ UNCHANGED <<celeryVars, hookVars, siteVars>>

\* reconcile() returns and the interrupted code resumes.
ReconcileDone ==
  /\ main # <<>>
  /\ Top.op = "reconcile" /\ Top.pc = "die"
  /\ Top.old = <<>>
  /\ main' = Pop
  /\ UNCHANGED <<allbuilders, bld, bqueue, bproc, posts, reconciles>>
  /\ UNCHANGED <<celeryVars, hookVars, siteVars>>

\* ------------------------------------------- restapi.py, the SSH sessions
\* The loop of install() over the artifacts of a build on one server, command
\* by command, for each request being served. sftp.put returns when the file
\* is on the server. ssh.exec_command opens a channel, sends the command and
\* returns: nothing reads the channel or waits for the exit status, so the
\* server runs the commands side by side and ends them in any order. The
\* sessions act on one server: /tmp, the directories and the installed files
\* are shared.
ClosedSession ==
  [pc |-> "closed", arts |-> <<>>, idx |-> 0, step |-> "", started |-> <<>>,
   finished |-> {}]

NoSessions ==
  [sess |-> [n \in Installers |-> ClosedSession], tmp |-> {}, dirs |-> {}, files |-> {}]

Dirname(path) == SubSeq(path, 1, Len(path) - 1)

\* The first command of the loop body for the artifact at position k.
FirstStep(arts, k) ==
  IF k > Len(arts) THEN "" ELSE IF arts[k].hash # NoHash THEN "put" ELSE "ln"

\* install() of request n reaches the loop with the artifacts of a build of
\* that tree.
SessionOpen(n, tree, itype) ==
  /\ chan.sess[n].pc = "closed"
  /\ tree # <<>>
  /\ LET arts == [k \in DOMAIN tree |->
                    [NewArtifact(1, tree[k]) EXCEPT
                       !.filename = DestPath(Servers[1], Repositories[4], itype,
                                             Hosts[1], NewArtifact(1, tree[k]))]]
     IN  chan' = [chan EXCEPT !.sess[n] =
                    [ClosedSession EXCEPT !.pc = "open", !.arts = arts, !.idx = 1,
                                          !.step = FirstStep(arts, 1)]]
  /\ UNCHANGED <<celeryVars, hookVars, dispVars, remote, issued>>

\* sftp.put(str(hash_path), temp_path)
SftpPut(n) ==
  /\ chan.sess[n].pc = "open" /\ chan.sess[n].step = "put"
  /\ chan' = [chan EXCEPT !.tmp = @ \cup {chan.sess[n].arts[chan.sess[n].idx].hash},
                          !.sess[n].step = "mkdir"]
  /\ UNCHANGED <<celeryVars, hookVars, dispVars, remote, issued>>

\* The step of the loop body after an exec_command, and the session after it.
AfterCommand(c) ==
  IF c.step = "mkdir" THEN [c EXCEPT !.step = "install"]
  ELSE IF c.step = "install" THEN [c EXCEPT !.step = "rm"]
  ELSE IF c.idx = Len(c.arts) THEN [c EXCEPT !.pc = "done", !.step = ""]
  ELSE [c EXCEPT !.idx = @ + 1, !.step = FirstStep(c.arts, c.idx + 1)]

\* execSyncedCommand of src/inau.py: the command has ended when the call
\* returns.
ExecCommand_Synced(n) ==
  /\ chan.sess[n].pc = "open" /\ chan.sess[n].step \in {"mkdir", "install", "rm", "ln"}
  /\ DOMAIN chan.sess[n].started \subseteq chan.sess[n].finished
  /\ chan' = [chan EXCEPT !.sess[n] = AfterCommand([chan.sess[n] EXCEPT
                !.started = Append(@, [cmd |-> chan.sess[n].step, art |-> chan.sess[n].idx])])]
  /\ UNCHANGED <<celeryVars, hookVars, dispVars, remote, issued>>

\* ssh.exec_command(...): the command is started and the call returns.
ExecCommand(n) ==
  /\ chan.sess[n].pc = "open" /\ chan.sess[n].step \in {"mkdir", "install", "rm", "ln"}
  /\ chan' = [chan EXCEPT !.sess[n] = AfterCommand([chan.sess[n] EXCEPT
                !.started = Append(@, [cmd |-> chan.sess[n].step, art |-> chan.sess[n].idx])])]
  /\ UNCHANGED <<celeryVars, hookVars, dispVars, remote, issued>>

\* The server ends command k of session n: mkdir -p $(dirname dest),
\* install -m /tmp/<hash> dest (which fails without its source or its
\* directory), rm /tmp/<hash>, ln -sfn.
RemoteRun(n, k) ==
  /\ k \in DOMAIN chan.sess[n].started
  /\ k \notin chan.sess[n].finished
  /\ LET c == chan.sess[n].started[k]
         a == chan.sess[n].arts[c.art]
     IN  chan' = [chan EXCEPT
           !.sess[n].finished = @ \cup {k},
           !.dirs = IF c.cmd = "mkdir" THEN @ \cup {Dirname(a.filename)} ELSE @,
           !.files = IF \/ c.cmd = "install" /\ a.hash \in chan.tmp
                                              /\ Dirname(a.filename) \in chan.dirs
                        \/ c.cmd = "ln"
                       THEN @ \cup {a.filename} ELSE @,
           !.tmp = IF c.cmd = "rm" THEN @ \ {a.hash} ELSE @]
  /\ UNCHANGED <<celeryVars, hookVars, dispVars, remote, issued>>

\* The steps of the sessions of the requests in N.
SessionSteps(N) ==
  \/ \E n \in N, tree \in Trees, itype \in {GLOBAL, HOST} : SessionOpen(n, tree, itype)
  \/ \E n \in N : SftpPut(n)
  \/ \E n \in N : ExecCommand(n)
  \/ \E n \in N : \E k \in DOMAIN chan.sess[n].started : RemoteRun(n, k)

\* ---------------------------------------------------- gitlab-hook-handler.py
\* gitlab_webhook: the whole coroutine, which never awaits. create_build
\* inserts a Build with status 0 without looking for an existing one.
gitlab_webhook(p) ==
  /\ hooks < MaxHooks
  /\ hooks' = hooks + 1
  /\ LET tag == extract_tag_from_ref(p.ref)
         found == find_repositories(p.path)
     IN  IF tag = <<>>
           THEN /\ hookStatus' = "ignored"
                /\ UNCHANGED builds
         ELSE IF found = <<>>
           THEN /\ hookStatus' = "not_found"
                /\ UNCHANGED builds
         ELSE /\ hookStatus' = "success"
              /\ builds' = Append(builds, NewBuild(Repositories[Head(found)], tag))
  /\ UNCHANGED <<artifacts, store, installations, taskq, req, wk, inst,
                 delivered, installs>>
  /\ UNCHANGED <<dispVars, siteVars>>

\* ------------------------------------------------------------ specification
vars == <<celeryVars, hookVars, dispVars, siteVars>>

Init ==
  /\ builds = <<>>
  /\ artifacts = {}
  /\ store = <<>>
  /\ installations = <<>>
  /\ taskq = <<>>
  /\ req = [h \in Handlers |-> IdleReq]
  /\ wk = [w \in Workers |-> IdleWorker]
  /\ inst = [n \in Installers |-> IdleInst]
  /\ delivered = 0
  /\ installs = [n \in Installers |-> 0]
  /\ hooks = 0
  /\ hookStatus = "none"
  /\ bld = NewBuilders(IdOrder)
  /\ bqueue = [i \in DOMAIN Builders |-> <<>>]
  /\ bproc = [i \in DOMAIN Builders |-> IdleProc]
  /\ allbuilders = NewPool(0, IdOrder)
  /\ main = <<>>
  /\ posts = 0
  /\ reconciles = 0
  /\ remote = {}
  /\ issued = {}
  /\ chan = NoSessions

Gateway(H, P) ==
  \/ \E h \in H, p \in P : Deliver(h, p)
  \/ \E h \in H : Check(h)
  \/ \E h \in H : Insert(h)
  \/ \E h \in H : InsertFail(h)
  \/ \E h \in H, sent \in BOOLEAN : Send(h, sent)
  \/ \E h \in H : Respond(h)

Worker(W) ==
  \/ \E w \in W : Start(w)
  \/ \E w \in W, gitok \in BOOLEAN, contains \in SUBSET BranchNames :
       Update(w, gitok, contains)
  \/ \E w \in W, outcome \in BuildOutcomes, tree \in Trees :
       RemoteBuild(w, outcome, tree)
  \/ \E w \in W : CollectFile(w)
  \/ \E w \in W : CopyBlock(w)
  \/ \E w \in W : CollectFail(w)
  \/ \E w \in W : CollectCommit(w)
  \/ \E w \in W : Except(w)
  \/ \E w \in W : Notify(w)

\* install() from its loop to the response.
InstallSteps(N) ==
  \/ \E n \in N : InstallSelect(n)
  \/ \E n \in N, outcome \in PlaceOutcomes : InstallPlace(n, outcome)
  \/ \E n \in N : InstallCommit(n)
  \/ \E n \in N : InstallReply(n)

Installer ==
  \/ \E reponame \in InstallNames, tag \in InstallTags : InstallRequest(1, reponame, tag)
  \/ InstallSteps({1})

\* Gateway processes and Celery worker processes running concurrently, on
\* tag pushes of project Q.
DispatcherOn(P) ==
  \/ \E p \in P : DoPost(p)
  \/ PostSelect
  \/ PostLoad
  \/ PostPut
  \/ PostRespond
  \/ \E i \in BuilderObjects : HandlerGet(i)
  \/ \E i \in BuilderObjects, gitok \in BOOLEAN, mailok \in BOOLEAN :
       HandlerUpdate(i, gitok, mailok)
  \/ \E i \in BuilderObjects, mailok \in BOOLEAN : HandlerBuild(i, mailok)
  \/ Sighup
  \/ \E order \in RowOrders : ReconcileSwap(order)
  \/ ReconcileDie
  \/ ReconcileJoin
  \/ ReconcileDone

Dispatcher == DispatcherOn(PayloadsD)

\* One gateway process and the worker processes.
Next == Gateway({1}, PayloadsQ) \/ Worker(Workers)

Spec == Init /\ [][Next]_vars

\* Several gateway processes and the worker processes.
NextPipeline == Gateway(Handlers, PayloadsQ) \/ Worker(Workers)

SpecPipeline == Init /\ [][NextPipeline]_vars

\* The gateway processes alone, on every kind of payload.
NextAdmission == Gateway(Handlers, Payloads)

SpecAdmission == Init /\ [][NextAdmission]_vars

\* One gateway process, one worker process and the installer.
NextInstall == Gateway({1}, PayloadsQ) \/ Worker({1}) \/ Installer

SpecInstall == Init /\ [][NextInstall]_vars

\* One gateway process and one worker process, the worker also receiving
\* messages for builds that already had one.
NextTask ==
  \/ Gateway({1}, {AdmittedQ})
  \/ Worker({1})
  \/ \E b \in 1..MaxDeliveries : Resubmit(b)

SpecTask == Init /\ [][NextTask]_vars

\* The gitlab-hook-handler.py service alone, requests handled one by one.
NextHook == \E p \in PayloadsH : gitlab_webhook(p)

SpecHook == Init /\ [][NextHook]_vars

\* The inau-dispatcher.py service: its main process and its builder processes.
NextDispatcher == Dispatcher

SpecDispatcher == Init /\ [][NextDispatcher]_vars

\* The inau-dispatcher.py service receiving every kind of event.
NextFilter == DispatcherOn(PayloadsF)

SpecFilter == Init /\ [][NextFilter]_vars

\* The inau-dispatcher.py service receiving tag pushes of two tags of P.
PayloadsT == { Admitted, [Admitted EXCEPT !.ref = <<RefsTags, "t2">>] }

NextTree == DispatcherOn(PayloadsT)

SpecTree == Init /\ [][NextTree]_vars

\* The steps by which a webhook request that has been received runs to its
\* response.
GatewayProgress(H) ==
  \/ \E h \in H : Check(h)
  \/ \E h \in H : Insert(h)
  \/ \E h \in H : InsertFail(h)
  \/ \E h \in H, sent \in BOOLEAN : Send(h, sent)
  \/ \E h \in H : Respond(h)

\* One gateway process and one worker process that keep running: a request
\* that was received is served to its end, and the worker takes the next
\* message and runs process_build to its return.
NextLive ==
  \/ Gateway({1}, PayloadsQ)
  \/ Worker({1})

SpecLive ==
  /\ Init
  /\ [][NextLive]_vars
  /\ WF_vars(GatewayProgress({1}))
  /\ WF_vars(Worker({1}))

\* One gateway process, one worker process and the installer, for the
\* project that is installed on two servers.
InstallerP ==
  \/ InstallRequest(1, "P", <<"t1">>)
  \/ InstallSteps({1})

NextServers ==
  \/ Gateway({1}, {Admitted})
  \/ Worker({1})
  \/ InstallerP

SpecServers == Init /\ [][NextServers]_vars

\* One gateway process, one worker process and NumInstallers restapi.py
\* server processes, each serving install requests for project Q.
InstallerQ ==
  \/ \E n \in Installers : InstallRequest(n, "Q", <<"t1">>)
  \/ InstallSteps(Installers)

NextOverlap ==
  \/ Gateway({1}, {AdmittedQ})
  \/ Worker({1})
  \/ InstallerQ

SpecOverlap == Init /\ [][NextOverlap]_vars

\* One gateway process, one worker process and two restapi.py processes: one
\* serves a GLOBAL install of project Q, the other a HOST install of it.
NextHost ==
  \/ Gateway({1}, {AdmittedQ})
  \/ Worker({1})
  \/ InstallRequest(1, "Q", <<"t1">>)
  \/ \E h \in DOMAIN Hosts : HostInstallRequest(2, h, "Q", <<"t1">>)
  \/ InstallSteps({1, 2})

SpecHost == Init /\ [][NextHost]_vars

\* One gateway process, one worker process and one restapi.py process that
\* serves FACILITY installs of project P, which has a LIBRARY repository.
NextFacility ==
  \/ Gateway({1}, {Admitted})
  \/ Worker({1})
  \/ \E facility \in {"production", "development"} :
       FacilityInstallRequest(1, facility, "P", <<"t1">>)
  \/ InstallSteps({1})

SpecFacility == Init /\ [][NextFacility]_vars

\* One request being served: its SSH session and the server that runs its
\* commands.
NextSession == SessionSteps({1})

SpecSession == Init /\ [][NextSession]_vars

\* The requests of several restapi.py processes placing on one server.
NextSessions == SessionSteps(Installers)

SpecSessions == Init /\ [][NextSessions]_vars

\* Two gateway processes, one worker process and one restapi.py process, on
\* one tag of project Q: the builds the installer chooses among.
NextSelect ==
  \/ Gateway({1, 2}, {AdmittedQ})
  \/ Worker({1})
  \/ InstallRequest(1, "Q", <<"t1">>)
  \/ InstallSteps({1})

SpecSelect == Init /\ [][NextSelect]_vars

\* ------------------------------------------------------------------ claims
SameKey(b1, b2) ==
  /\ builds[b1].repository_id = builds[b2].repository_id
  /\ builds[b1].platform_id = builds[b2].platform_id
  /\ builds[b1].tag = builds[b2].tag

ArtifactsOf(b) == {a \in artifacts : a.build_id = b}

\* C1: after any sequence of deliveries of the same admitted tag-push payload,
\* handled one after another, there is at most one Build row for each
\* (repository_id, platform_id, tag).
C1_SequentialAdmissionIdempotent ==
  \A b \in DOMAIN builds :
    Cardinality({c \in DOMAIN builds : SameKey(b, c)}) <= 1

\* C2: when two webhook requests for the same (repository_id, platform_id, tag)
\* interleave their existence check and insert, at most one Build row exists for
\* that key (the second request uses the pre-existing row).
C2_ConcurrentAdmissionOneBuild ==
  \A b1, b2 \in DOMAIN builds : SameKey(b1, b2) => b1 = b2

C4_TerminalBuildImmutable ==
  [][\A b \in DOMAIN builds :
       builds[b].status \in {SUCCESS, FAILED} => builds'[b] = builds[b]]_vars

\* C5: every Artifact row of a SUCCESS Build has exactly one of: hash set with
\* the blob present in the Object Store, or symlink_target set.
C5_ArtifactHashXorSymlink ==
  \A a \in artifacts :
    builds[a.build_id].status = SUCCESS =>
      ((a.hash # NoHash /\ StorePath(a.hash) \in DOMAIN store) # (a.symlink_target # NoTarget))

C5_Witness ==
  \E b \in DOMAIN builds :
    /\ builds[b].status = SUCCESS
    /\ \E a \in ArtifactsOf(b) : a.hash # NoHash
    /\ \E a \in ArtifactsOf(b) : a.symlink_target # NoTarget

\* C6: a Build whose status is FAILED has zero Artifact rows.
C6_FailedBuildNoArtifacts ==
  \A b \in DOMAIN builds : builds[b].status = FAILED => ArtifactsOf(b) = {}

\* A collection that failed part-way: a blob of the build is in the store, the
\* build is FAILED with the storage diagnostic.
C6_Witness ==
  \E b \in DOMAIN builds :
    /\ builds[b].status = FAILED
    /\ builds[b].output = <<"storage-error">>
    /\ store # <<>>

\* C7: every Installation row references a Build whose status is SUCCESS.
C7_InstallationOfSuccessBuild ==
  \A i \in DOMAIN installations : builds[installations[i].build_id].status = SUCCESS

\* C8: a job whose tag is not reachable from the default branch never produces
\* a SUCCESS build.
C8_UnreachableTagNeverSuccess ==
  \A w \in Workers :
    (wk[w].pc \in {"collect", "notify"}
       /\ builds[wk[w].task.build_id].status = SUCCESS) => wk[w].reachable

\* A builder process is executing a job.
Busy(i) == bproc[i].pc \in {"update", "build"}

IsPrefix(q1, q2) == Len(q1) <= Len(q2) /\ SubSeq(q2, 1, Len(q1)) = q1

QueuedJobs(i) == {bqueue[i][k].jid : k \in {n \in DOMAIN bqueue[i] : bqueue[i][n].kind = "store"}}

\* C9: a job placed on a worker's queue is never serviced by two workers at
\* once nor still pending while it is serviced, and while a worker executes a
\* job its queue changes only by enqueues at the tail, never by a consumer.
C9_JobServicedByOneWorker ==
  /\ [](\A i, j \in DOMAIN bld :
          Busy(i) =>
            /\ (Busy(j) /\ bproc[j].job.jid = bproc[i].job.jid => i = j)
            /\ bproc[i].job.jid \notin QueuedJobs(j))
  /\ [][\A i \in DOMAIN bld : Busy(i) => IsPrefix(bqueue[i], bqueue'[i])]_vars

\* Builder 1 executes a job while another job waits on its queue, and the
\* builder of the other platform executes a job too.
C9_Witness ==
  /\ Busy(1)
  /\ bqueue[1] # <<>>
  /\ \E j \in DOMAIN bld : j # 1 /\ Busy(j)

\* C10: at most one Build per (repository_id, tag) is RUNNING at any instant.
C10_OneRunningPerRepositoryTag ==
  \A b1, b2 \in DOMAIN builds :
    (/\ builds[b1].repository_id = builds[b2].repository_id
     /\ builds[b1].tag = builds[b2].tag
     /\ builds[b1].status = RUNNING
     /\ builds[b2].status = RUNNING) => b1 = b2

\* ---------------------------------------------------------------------------
\* Object store (build.py _hash_and_store_file, restapi.py install)
\* ---------------------------------------------------------------------------

\* C11: every file visible at the content address of a digest has content
\* with that digest; an interrupted copy leaves no file at the address.
C11_VisibleBlobHasDigestOfAddress ==
  \A store_path \in DOMAIN store : StorePath(Sha256(store[store_path])) = store_path

\* Worker w is inside shutil.copy2 for the file of digest file_hash.
Copying(w, file_hash) ==
  /\ wk[w].pc = "copy"
  /\ Sha256(wk[w].tree[wk[w].idx].content) = file_hash

\* C12: two concurrent ingestions of one digest are safe: at most one of them
\* publishes the blob, and while it is being written no other ingester has
\* found the file at the target path and returned its hash.
C12_ConcurrentIngestionSafe ==
  \A w1, w2 \in Workers :
    (w1 # w2 /\ wk[w1].pc = "copy") =>
      LET file_hash == Sha256(wk[w1].tree[wk[w1].idx].content)
      IN  /\ ~Copying(w2, file_hash)
          /\ \A a \in wk[w2].arts : a.hash # file_hash

\* The Artifacts for which an Ingest has returned: those a worker holds in its
\* list and those committed.
IngestedArtifacts == artifacts \cup UNION {wk[w].arts : w \in Workers}

\* C13: ingestion is idempotent: once any Ingest(F) has returned the hash of F,
\* the blob at that hash is byte-equal to F, however many times F is ingested.
C13_IngestIdempotentBlobEqualsFile ==
  \A a \in IngestedArtifacts :
    a.hash # NoHash =>
      /\ StorePath(a.hash) \in DOMAIN store
      /\ Sha256(store[StorePath(a.hash)]) = a.hash

\* C14: Ingest then Fetch round-trips: the installer opens a returned hash at
\* the path the worker wrote, and the bytes it reads and places are the bytes
\* of the ingested file, whose digest is that hash.
C14_IngestFetchRoundTrip ==
  /\ \A a \in IngestedArtifacts :
       a.hash # NoHash => HashPath(a.hash) = StorePath(a.hash)
  /\ \A f \in remote :
       f.hash # NoHash => Sha256(f.content) = f.hash

\* ---------------------------------------------------------------------------
\* Build worker (build.py process_build)
\* ---------------------------------------------------------------------------

\* Worker w has walked the whole tree of build b and is about to commit.
WalkDone(w, b) ==
  /\ wk[w].pc = "collect"
  /\ wk[w].task.build_id = b
  /\ wk[w].idx > Len(wk[w].tree)

\* C15: the Artifact rows of a Build are committed in one transaction after
\* the whole tree has been ingested: the committed rows of a build change only
\* from none to one row per file of the tree, each hash row with its blob in
\* the store, so a reader never sees a strict non-empty subset.
C15_ArtifactsCommittedAtomically ==
  [][\A b \in DOMAIN builds :
       ArtifactsOf(b)' # ArtifactsOf(b) =>
         /\ ArtifactsOf(b) = {}
         /\ \E w \in Workers :
              /\ WalkDone(w, b)
              /\ {a.filename : a \in ArtifactsOf(b)'} =
                   {wk[w].tree[k].filename : k \in DOMAIN wk[w].tree}
         /\ \A a \in ArtifactsOf(b)' :
              a.hash # NoHash => StorePath(a.hash) \in DOMAIN store]_vars

\* A build whose two Artifact rows, a file and a symlink, are committed.
C15_Witness ==
  \E b \in DOMAIN builds :
    /\ Cardinality(ArtifactsOf(b)) = 2
    /\ \E a \in ArtifactsOf(b) : a.hash = NoHash
    /\ \E w \in Workers : wk[w].task.build_id = b /\ wk[w].collected

\* The source update succeeded, the SSH session succeeded and make exited 0.
BuildOk(w) == wk[w].updated /\ wk[w].built /\ wk[w].exit_status = 0

\* The diagnostic process_build has captured when the job did not succeed.
Diagnostic(w) ==
  IF ~wk[w].updated
    THEN { <<"no-builder">>, UpdateFailed("git-error"),
           UpdateFailed("tag-not-in-default-branch") }
  ELSE IF wk[w].exit_status = -1 THEN { <<"ssh-error">> }
  ELSE IF wk[w].exit_status # 0 THEN { <<"missing-include">> }
  ELSE { <<"storage-error">> }

\* C16 as stated: when a job ends, its Build is SUCCESS if and only if the
\* source update succeeded, the SSH session succeeded and make exited 0, and
\* otherwise it is FAILED with the captured diagnostic as output.
C16_SuccessIffUpdateSshExitOk ==
  \A w \in Workers :
    wk[w].pc = "notify" =>
      LET build == builds[wk[w].task.build_id]
      IN  /\ build.status = SUCCESS <=> BuildOk(w)
          /\ ~BuildOk(w) => build.status = FAILED /\ build.output \in Diagnostic(w)

\* C16 amended: when a job ends, its Build is SUCCESS if and only if the
\* source update succeeded, the SSH session succeeded, make exited 0 and the
\* artifacts were collected and committed; otherwise it is FAILED and its
\* output is the captured diagnostic (make's output, the SSH error, the
\* update error after "Repository update failed: ", or the collection error).
C16_SuccessIffAllStagesOk ==
  \A w \in Workers :
    wk[w].pc = "notify" =>
      LET build == builds[wk[w].task.build_id]
          ok == BuildOk(w) /\ wk[w].collected
      IN  /\ build.status = SUCCESS <=> ok
          /\ ok => build.output = <<"make-ok">>
          /\ ~ok => build.status = FAILED /\ build.output \in Diagnostic(w)

\* A job ends after make has exited 2: the Build is FAILED with make's output.
C16_Witness ==
  \E w \in Workers :
    /\ wk[w].pc = "notify"
    /\ wk[w].updated /\ wk[w].exit_status = 2
    /\ builds[wk[w].task.build_id].status = FAILED
    /\ builds[wk[w].task.build_id].output = <<"missing-include">>

\* ---------------------------------------------------------------------------
\* Admission to execution (webhook.py schedule_builds, build.py process_build)
\* ---------------------------------------------------------------------------

\* Number of jobs enqueued for build b.
JobsFor(b) == Cardinality({k \in DOMAIN taskq : taskq[k].build_id = b})

\* The request that inserted build b has not yet called notify_celery_worker.
BeingScheduled(b) == \E h \in Handlers : req[h].pc = "send" /\ req[h].build = b

\* C17: exactly one job is enqueued for each Build the gateway creates: never
\* two, and, once the creating request has gone past the enqueue, not zero.
C17_ExactlyOneJobPerBuild ==
  \A b \in DOMAIN builds :
    /\ JobsFor(b) <= 1
    /\ ~BeingScheduled(b) => JobsFor(b) = 1

\* C18: every Build the gateway has inserted with status SCHEDULED eventually
\* reaches SUCCESS or FAILED, when requests and workers keep running.
C18_ScheduledBuildEventuallyEnds ==
  \A b \in 1..MaxDeliveries :
    (b \in DOMAIN builds /\ builds[b].status = SCHEDULED)
      ~> (b \in DOMAIN builds /\ builds[b].status \in {SUCCESS, FAILED})

\* ---------------------------------------------------------------------------
\* Installer (restapi.py install)
\* ---------------------------------------------------------------------------

\* Artifact a of the build being installed is in place on the server.
OnServer(server_id, a, files) ==
  \E f \in files : /\ f.server_id = server_id
                   /\ f.filename = a.filename
                   /\ f.hash = a.hash
                   /\ f.symlink_target = a.symlink_target

\* C19: Installation rows for the hosts of a Server are added only when every
\* artifact of the build selected for that Server has been placed on it; when
\* a remote placement fails no row is added and the request fails.
C19_InstallationOnlyAfterPlacement ==
  [][\A n \in Installers :
       (inst[n].pc = "place" /\ Len(inst'[n].pending) > Len(inst[n].pending)) =>
         \A a \in ArtifactsOf(inst[n].build) :
           OnServer(Servers[Head(inst[n].dests).server].id, a, remote')]_vars

\* Row is in the installations table.
Committed(row, table) == \E i \in DOMAIN table : table[i] = row

\* The paths that hold a file or a symlink on the servers.
PlacedPaths(files) == {<<f.server_id, f.path>> : f \in files}

\* C20: when an install request over several Servers fails at one of them, the
\* files already placed stay, and the Installation rows of the Servers served
\* before it are in the catalog after the request has ended.
C20_FailedInstallKeepsEarlierRows ==
  [][/\ PlacedPaths(remote) \subseteq PlacedPaths(remote')
     /\ \A n \in Installers :
          (inst[n].pc = "reply" /\ inst[n].status # 200 /\ inst'[n].pc = "idle") =>
            \A k \in DOMAIN inst[n].pending :
              Committed(inst[n].pending[k], installations')]_vars

\* ---------------------------------------------------------------------------
\* Installations (restapi.py get_installations, install)
\* ---------------------------------------------------------------------------

\* Rows of (host, repository) whose valid_to is null.
OpenRows(table, bs, host_id, repository_id) ==
  {i \in DOMAIN table : /\ table[i].host_id = host_id
                        /\ bs[table[i].build_id].repository_id = repository_id
                        /\ table[i].valid_to = 0}

\* get_installations, mode "status": among the rows with valid_to null, the
\* first of each (host_id, repository_id) partition ordered by id descending.
StatusQuery(table, bs) ==
  {i \in DOMAIN table :
     /\ table[i].valid_to = 0
     /\ \A j \in OpenRows(table, bs, table[i].host_id, bs[table[i].build_id].repository_id) :
          j <= i}

\* C21: for every (host, repository) the status query returns at most one
\* Installation, and it is the row of greatest install_date among the rows
\* of the pair with valid_to null.
C21_StatusIsLatestByInstallDate ==
  \A h \in DOMAIN Hosts, r \in DOMAIN Repositories :
    LET rows == OpenRows(installations, builds, Hosts[h].id, Repositories[r].id)
        current == StatusQuery(installations, builds) \cap rows
    IN  /\ Cardinality(current) <= 1
        /\ \A i \in current, j \in rows :
             installations[i].install_date >= installations[j].install_date

\* The SUCCESS builds of tag for the repository of that name on the platform
\* of the server.
Candidates(server, reponame, tag) ==
  {b \in DOMAIN builds :
     /\ \E r \in DOMAIN Repositories :
          /\ Repositories[r].platform_id = server.platform_id
          /\ Repositories[r].name = reponame
          /\ Repositories[r].id = builds[b].repository_id
     /\ builds[b].tag = tag
     /\ builds[b].status = SUCCESS}

C23_InstallationsAppendOnly ==
  [][/\ Len(installations') >= Len(installations)
     /\ \A i \in DOMAIN installations : installations'[i] = installations[i]
     /\ \A i \in DOMAIN installations' \ DOMAIN installations :
          /\ installations'[i].valid_to = 0
          /\ installations'[i].install_date = installations'[i].valid_from]_vars

\* A second install request has committed its rows after those of a first.
C23_Witness ==
  /\ Len(installations) = 4
  /\ installations[1].install_date # installations[3].install_date
  /\ \E n \in Installers : inst[n].pc = "reply" /\ inst[n].status = 200

----------------------------------------------------------------------------
\* The files install() is about to send to the head server of request n.
FilesOf(n) ==
  LET server == Servers[Head(inst[n].dests).server]
      hosts == Head(inst[n].dests).hosts
      repository == Repositories[RepositoryFor(server.platform_id, inst[n].reponame)]
  IN  [server_id |-> server.id,
       files |-> Placed(server, repository, inst[n].itype, Hosts[hosts[1]],
                        {a \in artifacts : a.build_id = inst[n].build}, store)]

\* Request n completes its commands on a server that an earlier, committed
\* request sent the same files to: the rows of its hosts are added.
Repeats(n) ==
  /\ inst[n].pc = "place"
  /\ inst[n].itype = GLOBAL
  /\ FilesOf(n) \in issued
  /\ \E k \in DOMAIN installations :
       /\ installations[k].build_id = inst[n].build
       /\ installations[k].type = GLOBAL
       /\ Hosts[installations[k].host_id].server_id = FilesOf(n).server_id
  /\ Len(inst'[n].pending) > Len(inst[n].pending)

\* C24: a GLOBAL install of a (repository, tag) that an earlier GLOBAL install
\* already sent to the server, with the same artifacts and the same blobs,
\* leaves the server's files as they were and still adds one Installation row
\* per destination host.
C24_SecondInstallLeavesFilesAddsRows ==
  [][\A n \in Installers :
       Repeats(n) =>
         /\ remote' = remote
         /\ Len(inst'[n].pending) =
              Len(inst[n].pending) + Len(Head(inst[n].dests).hosts)]_vars

----------------------------------------------------------------------------
\* The events the gateway is to ignore.
FilteredOut(p) ==
  \/ p.object_kind # "tag_push"
  \/ p.after = ZeroSha
  \/ p.commits # <<>> /\ p.after = p.commits[1]
  \/ extract_tag_from_ref(p.ref) = <<>>
  \/ find_repositories(p.path) = <<>>

WebhookFilteredEventChangesNothing ==
  [][\A h \in Handlers :
       (req[h].pc = "idle" /\ req'[h].pc # "idle" /\ FilteredOut(req'[h].payload)) =>
          /\ req'[h].pc = "respond"
          /\ builds' = builds /\ taskq' = taskq]_vars

----------------------------------------------------------------------------
\* The Build rows of repository r for tag t.
BuildsOf(r, t) ==
  {k \in DOMAIN builds : /\ builds[k].repository_id = Repositories[r].id
                         /\ builds[k].platform_id = Repositories[r].platform_id
                         /\ builds[k].tag = t}

\* C26: once an admitted tag push of project P and tag t has been handled (a
\* Build row of P for t exists; the handler runs as one step), every enabled
\* Repository named P has exactly one Build row for (id, platform_id, t), each
\* row was created SCHEDULED, and no disabled Repository has a Build row.
C26_OneBuildPerEnabledRepository ==
  \A b \in DOMAIN builds : \A r \in DOMAIN Repositories :
    Repositories[r].name = Repositories[builds[b].repository_id].name =>
      /\ builds[b].status = SCHEDULED
      /\ IF Repositories[r].enabled
           THEN Cardinality(BuildsOf(r, builds[b].tag)) = 1
           ELSE \A k \in DOMAIN builds : builds[k].repository_id # Repositories[r].id

----------------------------------------------------------------------------
----------------------------------------------------------------------------
\* b.process.join() returns in reconcile() for the old builder at hand.
JoinReturns ==
  /\ main # <<>>
  /\ Top.op = "reconcile" /\ Top.pc = "join"
  /\ Len(main') = Len(main) /\ main' # main

----------------------------------------------------------------------------
\* The builder objects of the pool of platform p.
PoolOf(pool, p) == {pool[p][k] : k \in DOMAIN pool[p]}

\* Builder b is the one to choose in the pool of platform p: its queue is the
\* shortest, and it has the lowest Builder id among those with that length.
Choice(b, p) ==
  /\ b \in PoolOf(allbuilders, p)
  /\ \A j \in PoolOf(allbuilders, p) :
       \/ Len(bqueue[b]) < Len(bqueue[j])
       \/ Len(bqueue[b]) = Len(bqueue[j]) /\ bld[b].name <= bld[j].name

\* The builder the request in progress is about to put its job on.
Assigned(m, pool) == pool[Repositories[Head(m[1].repos)].platform_id][m[1].idx]

Putting(m) == m # <<>> /\ m[1].op = "post" /\ m[1].pc = "put"

----------------------------------------------------------------------------
\* The per-host subtree <prefix>/site/<host.name>/ of a server.
Subtree(server, host) == <<server.prefix, "/site/", host.name, "/">>

\* The files and symlinks a step creates, replaces or removes.
Touched == (remote' \ remote) \cup (remote \ remote')

\* C30: a HOST-scope install for host h changes, on the server of h, only
\* paths under <prefix>/site/<h.name>/: every file and symlink it creates or
\* replaces lies there, and every path of the shared prefix, of another
\* host's subtree and of another server stays as it was.
C30_HostInstallStaysInSubtree ==
  [][\A n \in Installers :
       (inst[n].pc = "place" /\ inst[n].itype = HOST /\ inst'[n] # inst[n]) =>
         LET server == Servers[Head(inst[n].dests).server]
             host == Hosts[Head(inst[n].dests).hosts[1]]
         IN  \A f \in Touched :
               /\ f.server_id = server.id
               /\ IsPrefix(Subtree(server, host), f.path)]_vars

\* A HOST install has placed a file and a symlink under the subtree of its
\* host on a server that also holds the files of a GLOBAL install, and its
\* Installation row is committed.
C30_Witness ==
  /\ \E k \in DOMAIN installations :
       /\ installations[k].type = HOST
       /\ \E f, l \in remote :
            /\ f.hash # NoHash /\ l.hash = NoHash
            /\ IsPrefix(Subtree(Servers[1], Hosts[installations[k].host_id]), f.path)
            /\ IsPrefix(Subtree(Servers[1], Hosts[installations[k].host_id]), l.path)
  /\ \E g \in remote : g.server_id = 1 /\ g.path[2] # "/site/"

----------------------------------------------------------------------------
\* Request n, of GLOBAL scope, places the shared copies of its build on the
\* server at hand in this step.
GlobalPlaced(n) ==
  /\ inst[n].pc = "place"
  /\ inst[n].itype = GLOBAL
  /\ Len(inst'[n].pending) > Len(inst[n].pending)
  /\ FilesOf(n).files # {}
  /\ FilesOf(n).files \subseteq remote'

\* The per-host overlays of the files of request n on its server.
OverlaysOf(n, files) ==
  LET server == Servers[Head(inst[n].dests).server]
      repository == Repositories[RepositoryFor(server.platform_id, inst[n].reponame)]
      arts == {a \in artifacts : a.build_id = inst[n].build}
  IN  {f \in files :
         /\ f.server_id = server.id
         /\ \E a \in arts, h \in DOMAIN Hosts :
              /\ Hosts[h].server_id = server.id
              /\ f.path = DestPath(server, repository, HOST, Hosts[h], a)}

\* C31: once a GLOBAL install has placed the shared copies of its artifacts on
\* a server, no per-host overlay <prefix>/site/*/<destination>/<filename> of
\* an installed artifact is left on that server.
C31_GlobalInstallRemovesOverlays ==
  [][\A n \in Installers : GlobalPlaced(n) => OverlaysOf(n, remote') = {}]_vars

----------------------------------------------------------------------------
\* The artifacts of a LIBRARY build meant for a facility other than
\* development: under lib/ or bin/, and not under lib/cmake or lib/pkgconfig.
ForProduction(arts) ==
  {a \in arts :
     /\ a.filename[1] \in {"lib/", "bin/"}
     /\ ~(/\ Len(a.filename) > 1
          /\ a.filename[1] = "lib/"
          /\ a.filename[2] \in {"cmake/", "pkgconfig/"})}

\* Request n sends the artifacts of a LIBRARY build to the server of hosts of
\* a facility other than development in this step.
LibraryPlaced(n) ==
  /\ inst[n].pc = "place"
  /\ Len(inst'[n].pending) > Len(inst[n].pending)
  /\ LET server == Servers[Head(inst[n].dests).server]
         hosts == Head(inst[n].dests).hosts
     IN  /\ Repositories[RepositoryFor(server.platform_id, inst[n].reponame)].type = LIBRARY
         /\ \A k \in DOMAIN hosts : Hosts[hosts[k]].facility # "development"

\* C32: a LIBRARY repository installed to hosts of a facility other than
\* development has exactly its artifacts under lib/ or bin/ and not under
\* lib/cmake or lib/pkgconfig placed, and one Installation row per destination
\* host is still added.
C32_LibraryInstallSkipsDeveloperFiles ==
  [][\A n \in Installers :
       LibraryPlaced(n) =>
         LET server == Servers[Head(inst[n].dests).server]
             hosts == Head(inst[n].dests).hosts
             repository == Repositories[RepositoryFor(server.platform_id, inst[n].reponame)]
             arts == {a \in artifacts : a.build_id = inst[n].build}
         IN  /\ issued' = issued \cup
                  {[server_id |-> server.id,
                    files |-> Placed(server, repository, inst[n].itype, Hosts[hosts[1]],
                                     ForProduction(arts), store)]}
             /\ Len(inst'[n].pending) = Len(inst[n].pending) + Len(hosts)]_vars

----------------------------------------------------------------------------
\* C33: symlinks round-trip through build and install: once a GLOBAL install
\* has placed a build with a regular file f and a symlink l -> f of the same
\* directory, the server holds the symlink under the placement root of f, and
\* what it points to is the installed f.
C33_SymlinkResolvesToInstalledFile ==
  [][\A n \in Installers :
       GlobalPlaced(n) =>
         \A l \in FilesOf(n).files :
           l.hash = NoHash =>
             \E f \in remote' :
               /\ f.server_id = l.server_id
               /\ f.hash # NoHash
               /\ f.filename = l.symlink_target
               /\ f.path = l.points_to
               /\ SubSeq(l.path, 1, Len(l.path) - 1) = SubSeq(f.path, 1, Len(f.path) - 1)]_vars

\* --------------------------------------------------------------------- C34
\* C34: the remote commands of an artifact run one after the other: a command
\* is started only when every command started before it in the session has
\* ended, so install finds the directory mkdir made and rm ends after install.
C34_RemoteCommandsRunInOrder ==
  [][\A n \in Installers :
       Len(chan'.sess[n].started) > Len(chan.sess[n].started) =>
         DOMAIN chan.sess[n].started \subseteq chan.sess[n].finished]_vars

\* The staged file is gone and its install has not yet run: the file is never
\* installed in this session.
StagedFileRemovedBeforeInstall ==
  \E k \in DOMAIN chan.sess[1].started :
    /\ chan.sess[1].started[k].cmd = "install"
    /\ k \notin chan.sess[1].finished
    /\ chan.sess[1].arts[chan.sess[1].started[k].art].hash \notin chan.tmp

\* --------------------------------------------------------------------- C35
\* A request is placing on the server: its session is in the loop, or a
\* command it started has not ended.
Placing(n) ==
  \/ chan.sess[n].pc = "open"
  \/ DOMAIN chan.sess[n].started # chan.sess[n].finished

\* C35: two install requests never place on one server at the same time.
C35_OneSessionPerServer ==
  \A n, m \in Installers : n # m => ~(Placing(n) /\ Placing(m))

\* Request 2 has staged /tmp/<hash> and its install has yet to run, and the
\* file is gone: the rm of request 1 removed it.
StagedFileRemovedByOtherRequest ==
  /\ chan.sess[1].pc = "done"
  /\ DOMAIN chan.sess[1].started = chan.sess[1].finished
  /\ chan.sess[2].pc = "open"
  /\ chan.sess[2].step = "install"
  /\ DOMAIN chan.sess[2].started = chan.sess[2].finished
  /\ chan.sess[2].arts[chan.sess[2].idx].hash \notin chan.tmp

\* --------------------------------------------------------------------- C36
\* get_installations, mode "diff": the rows of the status query whose type
\* is not GLOBAL.
DiffQuery(table, bs) ==
  {i \in StatusQuery(table, bs) : table[i].type # GLOBAL}

\* The hosts of a facility.
FacilityHosts(facility) == {Hosts[h].id : h \in {k \in DOMAIN Hosts : Hosts[k].facility = facility}}

\* get_facility_installations, mode "status": the status ranking over the
\* rows of the hosts of the facility.
FacilityStatusQuery(table, bs, facility) ==
  {i \in StatusQuery(table, bs) : table[i].host_id \in FacilityHosts(facility)}

\* get_facility_installations, mode "diff": of those, the rows of type HOST.
FacilityDiffQuery(table, bs, facility) ==
  {i \in FacilityStatusQuery(table, bs, facility) : table[i].type = HOST}

\* get_host_installations, mode "status": the status ranking over the rows
\* of the host.
HostStatusQuery(table, bs, host_id) ==
  {i \in StatusQuery(table, bs) : table[i].host_id = host_id}

\* get_host_installations, mode "diff": of those, the rows of type HOST.
HostDiffQuery(table, bs, host_id) ==
  {i \in HostStatusQuery(table, bs, host_id) : table[i].type = HOST}

\* C36: at the global, facility and host level the diff query returns
\* exactly the current rows (those of the status query of that level) whose
\* type is not GLOBAL: the rows of type FACILITY and of type HOST.
C36_DiffReturnsNonGlobalCurrentRows ==
  /\ DiffQuery(installations, builds) =
       {i \in StatusQuery(installations, builds) : installations[i].type \in {FACILITY, HOST}}
  /\ \A facility \in {"production", "development"} :
       FacilityDiffQuery(installations, builds, facility) =
         {i \in FacilityStatusQuery(installations, builds, facility) :
            installations[i].type \in {FACILITY, HOST}}
  /\ \A h \in DOMAIN Hosts :
       HostDiffQuery(installations, builds, Hosts[h].id) =
         {i \in HostStatusQuery(installations, builds, Hosts[h].id) :
            installations[i].type \in {FACILITY, HOST}}

\* The global half of C36 alone.
GlobalDiffReturnsNonGlobalCurrentRows ==
  DiffQuery(installations, builds) =
    {i \in StatusQuery(installations, builds) : installations[i].type \in {FACILITY, HOST}}

\* --------------------------------------------------------------------- C37
\* C37: the webhook endpoint answers 201 only when the request scheduled one
\* or more Builds.
C37_CreatedOnlyWhenBuildScheduled ==
  \A h \in DOMAIN req :
    (req[h].pc = "respond" /\ req[h].status = 201) => req[h].scheduled # <<>>

----------------------------------------------------------------------------
\* A job is on the queue of a worker whose process has ended on a Die:
\* nothing reads that queue any more.
Lost(i) ==
  /\ bproc[i].pc = "exited"
  /\ \E k \in DOMAIN bqueue[i] : bqueue[i][k].kind = "store"

----------------------------------------------------------------------------
\* Builder.update and Builder.build work in platdir + "/" + repository_name,
\* platdir being <repo_root>/<platform_id>: the working tree of a job.
WorkingTree(i) == <<bld[i].platform_id, bproc[i].job.repository_name>>

TwoTagsInOneTree ==
  \E i, j \in DOMAIN bld :
    /\ i # j /\ Busy(i) /\ Busy(j)
    /\ WorkingTree(i) = WorkingTree(j)
    /\ bproc[i].job.build_tag # bproc[j].job.build_tag

----------------------------------------------------------------------------
\* The file names of the Artifact rows of build b.
ArtifactNames(b) == {a.filename : a \in {x \in artifacts : x.build_id = b}}

\* install() has sent, to the server of that host, the commands that place
\* exactly the files of those names.
SentFor(host_id, names) ==
  \E h \in DOMAIN Hosts :
    /\ Hosts[h].id = host_id
    /\ \E e \in issued :
         /\ e.server_id = Hosts[h].server_id
         /\ {f.filename : f \in e.files} = names

\* C40: a Build observable as SUCCESS has its Artifact rows complete, so an
\* Installation is recorded only for a placement that covered every artifact
\* the build ends up with.
C40_InstallationCoversArtifacts ==
  \A i \in DOMAIN installations :
    SentFor(installations[i].host_id, ArtifactNames(installations[i].build_id))

\* An Installation of a build with artifacts is recorded and the only
\* placement sent to its server was empty.
InstalledNothing ==
  \E i \in DOMAIN installations :
    /\ ArtifactNames(installations[i].build_id) # {}
    /\ \A e \in issued : e.files = {}

====
